---------------------------- MODULE Spec2Model ----------------------------
(***************************************************************************)
(* State-machine model of HaWebRtcPlayer                                   *)
(* (src/src/components/ha-web-rtc-player.ts).                              *)
(*                                                                         *)
(* One component instance.  Every call of _startWebRtc is a "negotiation", *)
(* numbered 1..MaxNeg in the order the calls are made; negotiation n owns  *)
(* the RTCPeerConnection n, the remote MediaStream n and, when it captures *)
(* the microphone, the local audio track n (tracks[0] of its capture).     *)
(* The value 0 stands for `undefined` wherever an object reference is      *)
(* stored.  Each action is one task of the UI event loop: a lifecycle      *)
(* callback, or the settling of one awaited promise together with the      *)
(* synchronous code that runs up to the next await, and the re-render Lit  *)
(* performs in the microtask that follows a change of a reactive property. *)
(*                                                                         *)
(* neg[n] holds the locals of call n.  A local is kept while the code can  *)
(* still read it and up to the next await after its last use, where the    *)
(* properties about it are stated; then it is reset to its initial value.  *)
(***************************************************************************)
EXTENDS Integers, Sequences, FiniteSets, TLC

\* ---------------------------------------------------------------- bounds
MaxNeg == 2          \* calls of _startWebRtc in one behaviour
MaxCand == 2         \* ICE candidates gathered for one peer connection
MaxTracks == 2       \* remote tracks delivered by one remote description
MaxLocalTracks == 1  \* tracks returned by one getUserMedia call

Negs == 1..MaxNeg
Entities == {"camera.front", "camera.back"}
Msgs == {"timeout", "unknown camera"}

\* ---------------------------------------------------------------- values
Undefined == [undefined |-> TRUE]
NoError == ""        \* this._error === undefined (falsy in render)

BackendRtcConfiguration == [iceServers |-> << [urls |-> <<"turn:backend">>] >>]
EmptyConfiguration == [iceServers |-> <<>>]

\* What fetchWebRtcConfig can resolve with.
WebRtcConfigs ==
    {Undefined} \cup
    [rtc_configuration : {Undefined, BackendRtcConfiguration},
     create_data_channel : BOOLEAN,
     audio_direction : {"sendrecv", "recvonly"}]

\* What fetchWebRtcSettings can resolve with.
WebRtcSettings ==
    {Undefined, [stun_server |-> ""], [stun_server |-> "stun.example:3478"]}

VARIABLES
    connected,               \* the element is in the document
    hasUpdated,              \* LitElement.hasUpdated
    entityid,                \* @property entityid
    mediaDevices,            \* navigator.mediaDevices is available
    _error,                  \* @state _error
    _peerConnection,         \* private _peerConnection (0: undefined)
    _remoteStream,           \* private _remoteStream (0: undefined)
    _localReturnAudioTrack,  \* private _localReturnAudioTrack (0: undefined)
    videoEl,                 \* the rendered <video id="remote-stream">
    micShown,                \* the mic control's label as last rendered
    micEnabled,              \* local tracks whose enabled flag is true
    stoppedLocal,            \* local tracks on which stop() was called
    streamTracks,            \* streamTracks[n]: tracks added to MediaStream n
    stoppedRemote,           \* remote tracks <<n, i>> on which stop() was called
    pcs,                     \* pcs[n]: "none" | "open" | "closed"
    nClose,                  \* number of RTCPeerConnection.close() calls made
    closeReqs,               \* closeWebRtcStream requests sent, in order
    attached,                \* streams ever assigned to a video's srcObject
    started,                 \* number of _startWebRtc calls made
    neg                      \* neg[n]: the locals and position of call n

compVars == <<_error, _peerConnection, _remoteStream, _localReturnAudioTrack,
              videoEl, micShown, micEnabled, stoppedLocal, streamTracks, stoppedRemote,
              pcs, nClose, closeReqs, attached>>
vars == <<connected, hasUpdated, entityid, mediaDevices, started, neg,
          _error, _peerConnection, _remoteStream, _localReturnAudioTrack,
          videoEl, micShown, micEnabled, stoppedLocal, streamTracks, stoppedRemote,
          pcs, nClose, closeReqs, attached>>

\* ---------------------------------------------------------------- render
NoVideo == [present |-> FALSE, src |-> "", srcObject |-> 0]
FreshVideo == [present |-> TRUE, src |-> "", srcObject |-> 0]

\* render(): the alert replaces the video while _error is set; a video that
\* is rendered again after an alert is a new element.
Render(err, video) ==
    IF err # NoError THEN NoVideo
    ELSE IF video.present THEN video
    ELSE FreshVideo

\* The mic control is part of the rendered template.
MicControlRendered ==
    videoEl.present /\ _localReturnAudioTrack # 0

MicLabel ==
    IF _localReturnAudioTrack \in micEnabled THEN "Turn off mic" ELSE "Turn on mic"

\* render(), lines 67-69 and 79-94: the label of the mic control that a
\* render leaves in the DOM; "none" when the alert is rendered or there is
\* no local track.  _localReturnAudioTrack and the track's enabled flag are
\* not reactive: the DOM keeps this label until the next render.
RenderMic(err, track, enabled) ==
    IF err # NoError \/ track = 0 THEN "none"
    ELSE IF track \in enabled THEN "Turn off mic" ELSE "Turn on mic"

\* ---------------------------------------------------------------- negotiation locals
NegIdle ==
    [pc |-> "idle",
     overlaps |-> FALSE,            \* started while a call ran or a session was held
     cfgEntity |-> "",              \* entityid passed to fetchWebRtcConfig
     web_rtc_config |-> Undefined,
     rtspLoaded |-> FALSE,          \* isComponentLoaded(hass, "rtsp_to_webrtc")
     settingsFetched |-> FALSE,     \* fetchWebRtcSettings was called
     settings |-> Undefined,        \* what fetchWebRtcSettings resolved with
     peer_configuration |-> Undefined,
     dataChannel |-> FALSE,
     captured |-> -1,               \* tracks.length of getMediaTracks, -1: not called
     transceivers |-> <<>>,
     offerMic |-> "none",           \* the audio transceiver's track at createOffer
     gathered |-> 0,                \* icecandidate events with a candidate seen
     candidates |-> "",
     offerEntity |-> "",            \* entityid passed to handleWebRtcOffer
     offer_sdp |-> "",
     trackListener |-> FALSE,
     remoteDescription |-> "none"]  \* "none" | "called" | "applied" | "rejected"

\* The locals of lines 123-160 (configuration and transport setup), dead once
\* createOffer has settled.
ForgetSetup(r) ==
    [r EXCEPT !.web_rtc_config = Undefined,
              !.rtspLoaded = FALSE,
              !.settingsFetched = FALSE,
              !.settings = Undefined,
              !.peer_configuration = Undefined,
              !.dataChannel = FALSE,
              !.captured = -1,
              !.transceivers = <<>>,
              !.offerMic = "none"]

\* The locals of lines 165-188 (offer construction), dead once
\* handleWebRtcOffer has settled.
ForgetOffer(r) ==
    [r EXCEPT !.cfgEntity = "",
              !.gathered = 0,
              !.candidates = "",
              !.offer_sdp = ""]

InFlight(n) ==
    neg[n].pc \in {"fetchConfig", "fetchSettings", "capture", "createOffer",
                   "setLocal", "gather", "offer", "setRemote"}

Settled(n) ==
    neg[n].pc \in {"established", "failedOffer", "failedRemote", "aborted"}

OfferSdp(n) == "v=0 offer " \o ToString(n) \o "\r\n"
Candidate(k) == "candidate:" \o ToString(k)

ErrStart == "Failed to start WebRTC stream: "
ErrConnect == "Failed to connect WebRTC stream: "

AudioRecvOnly == [kind |-> "audio", direction |-> "recvonly", track |-> 0]
VideoRecvOnly == [kind |-> "video", direction |-> "recvonly", track |-> 0]
AudioSendRecv(t) == [kind |-> "audio", direction |-> "sendrecv", track |-> t]

\* ---------------------------------------------------------------- Init
Init ==
    /\ connected = FALSE
    /\ hasUpdated = FALSE
    /\ entityid \in Entities
    /\ mediaDevices \in BOOLEAN
    /\ _error = NoError
    /\ _peerConnection = 0
    /\ _remoteStream = 0
    /\ _localReturnAudioTrack = 0
    /\ videoEl = NoVideo
    /\ micShown = "none"
    /\ micEnabled = {}
    /\ stoppedLocal = {}
    /\ streamTracks = [n \in Negs |-> {}]
    /\ stoppedRemote = {}
    /\ pcs = [n \in Negs |-> "none"]
    /\ nClose = 0
    /\ closeReqs = <<>>
    /\ attached = {}
    /\ started = 0
    /\ neg = [n \in Negs |-> NegIdle]

\* ---------------------------------------------------------------- _startWebRtc
\* Lines 120-124: clear _error (Lit re-renders the video) and request the
\* backend's configuration for the current entityid `eid`.  `video` is the
\* element as rendered before the call.
StartWebRtc(video, eid) ==
    /\ started < MaxNeg
    /\ started' = started + 1
    /\ _error' = NoError
    /\ videoEl' = Render(NoError, video)
    /\ neg' = [neg EXCEPT ![started + 1] =
                  [NegIdle EXCEPT !.pc = "fetchConfig",
                                  !.cfgEntity = eid,
                                  !.overlaps = (\E m \in Negs : InFlight(m)) \/ _peerConnection # 0]]

\* Faulty variant: the url is the bare server name, without the "stun:" scheme.
PeerConfigurationFromSettings_NoScheme(settings) ==
    IF settings = Undefined \/ settings.stun_server = ""
    THEN EmptyConfiguration
    ELSE [iceServers |-> << [urls |-> <<settings.stun_server>>] >>]

\* Lines 237-246: the configuration built from the fallback settings.
PeerConfigurationFromSettings(settings) ==
    IF settings = Undefined \/ settings.stun_server = ""
    THEN EmptyConfiguration
    ELSE [iceServers |-> << [urls |-> <<"stun:" \o settings.stun_server>>] >>]

\* Line 125: the backend's configuration carries an rtc_configuration.
HasRtcConfiguration(cfg) ==
    cfg # Undefined /\ cfg.rtc_configuration # Undefined

\* Lines 134-136.
CreatesDataChannel(cfg) ==
    cfg # Undefined /\ cfg.create_data_channel = TRUE

\* Lines 140-144: the condition under which the microphone is captured.
CaptureRequested(cfg) ==
    /\ cfg # Undefined
    /\ cfg.audio_direction = "sendrecv"
    /\ mediaDevices

\* Lines 130-166: new RTCPeerConnection(peer_configuration), the data channel,
\* then either the call of getMediaTracks (await) or the receive-only audio
\* transceiver, the video transceiver and the call of createOffer (await).
\* `r` is negotiation n's record with web_rtc_config and peer_configuration set.
SetupTransport(n, r) ==
    /\ pcs' = [pcs EXCEPT ![n] = "open"]
    /\ LET r1 == [r EXCEPT !.dataChannel = CreatesDataChannel(r.web_rtc_config)]
       IN  IF CaptureRequested(r.web_rtc_config)
           THEN neg' = [neg EXCEPT ![n] = [r1 EXCEPT !.pc = "capture"]]
           ELSE neg' = [neg EXCEPT ![n] =
                           [r1 EXCEPT !.pc = "createOffer",
                                      !.transceivers = <<AudioRecvOnly, VideoRecvOnly>>]]

\* fetchWebRtcConfig settles (lines 124-130, 232-236).  A rejection is not
\* caught: the async function ends with an unhandled rejection.  `loaded` is
\* what isComponentLoaded(this.hass, "rtsp_to_webrtc") answers when asked.
FetchConfigSettles(n) ==
    /\ neg[n].pc = "fetchConfig"
    /\ UNCHANGED <<connected, hasUpdated, entityid, mediaDevices, started,
                   _error, _peerConnection, _remoteStream, _localReturnAudioTrack,
                   videoEl, micShown, micEnabled, stoppedLocal, streamTracks,
                   stoppedRemote, nClose, closeReqs, attached>>
    /\ \/ /\ neg' = [neg EXCEPT ![n] = ForgetOffer([@ EXCEPT !.pc = "aborted"])]
          /\ UNCHANGED pcs
       \/ \E cfg \in WebRtcConfigs :
            /\ HasRtcConfiguration(cfg)
            /\ SetupTransport(n, [neg[n] EXCEPT !.web_rtc_config = cfg,
                                                !.peer_configuration = cfg.rtc_configuration])
       \/ \E cfg \in WebRtcConfigs :
            /\ ~HasRtcConfiguration(cfg)
            /\ SetupTransport(n, [neg[n] EXCEPT !.web_rtc_config = cfg,
                                                !.rtspLoaded = FALSE,
                                                !.peer_configuration = EmptyConfiguration])
       \/ \E cfg \in WebRtcConfigs :
            /\ ~HasRtcConfiguration(cfg)
            /\ neg' = [neg EXCEPT ![n] =
                          [@ EXCEPT !.pc = "fetchSettings",
                                    !.web_rtc_config = cfg,
                                    !.rtspLoaded = TRUE,
                                    !.settingsFetched = TRUE]]
            /\ UNCHANGED pcs

\* fetchWebRtcSettings settles (lines 236-246, then 130-166).
FetchSettingsSettles(n) ==
    /\ neg[n].pc = "fetchSettings"
    /\ UNCHANGED <<connected, hasUpdated, entityid, mediaDevices, started,
                   _error, _peerConnection, _remoteStream, _localReturnAudioTrack,
                   videoEl, micShown, micEnabled, stoppedLocal, streamTracks,
                   stoppedRemote, nClose, closeReqs, attached>>
    /\ \/ /\ neg' = [neg EXCEPT ![n] = ForgetOffer(ForgetSetup([@ EXCEPT !.pc = "aborted"]))]
          /\ UNCHANGED pcs
       \/ \E settings \in WebRtcSettings :
            SetupTransport(n, [neg[n] EXCEPT !.settings = settings,
                                             !.peer_configuration =
                                                 PeerConfigurationFromSettings(settings)])

\* Faulty variant: the captured track is left enabled.
MicAfterCapture_LeftOn(enabled, track) == enabled \cup {track}

\* Lines 149-153: a freshly captured track is enabled; the code turns it off.
MicAfterCapture(enabled, track) == (enabled \cup {track}) \ {track}

\* Lines 149-153: the track stored when the capture returned k tracks.
LocalTrackAfterCapture(n, k) ==
    IF k > 0 THEN n ELSE _localReturnAudioTrack

\* getMediaTracks settles (lines 145-166, 218-230) with k tracks; k = 0 is a
\* rejected getUserMedia (caught, []) or a stream without tracks.
\* addTransceiver(undefined, ...) throws a TypeError, which ends the function.
CaptureSettles(n) ==
    /\ neg[n].pc = "capture"
    /\ UNCHANGED <<connected, hasUpdated, entityid, mediaDevices, started,
                   _error, _peerConnection, _remoteStream,
                   videoEl, micShown, stoppedLocal, streamTracks, stoppedRemote,
                   pcs, nClose, closeReqs, attached>>
    /\ \E k \in 0..MaxLocalTracks :
         LET track == LocalTrackAfterCapture(n, k)
             mic == IF k > 0 THEN MicAfterCapture(micEnabled, n) ELSE micEnabled
         IN  /\ _localReturnAudioTrack' = track
             /\ micEnabled' = mic
             /\ IF track = 0
                THEN neg' = [neg EXCEPT ![n] =
                                ForgetOffer([ForgetSetup(@) EXCEPT !.pc = "aborted", !.captured = k])]
                ELSE neg' = [neg EXCEPT ![n] =
                                [@ EXCEPT !.pc = "createOffer",
                                          !.captured = k,
                                          !.transceivers = <<AudioSendRecv(track), VideoRecvOnly>>,
                                          !.offerMic = IF track \in mic THEN "on" ELSE "off"]]

\* createOffer settles (line 166); setLocalDescription is called (line 167).
CreateOfferSettles(n) ==
    /\ neg[n].pc = "createOffer"
    /\ UNCHANGED <<connected, hasUpdated, entityid, mediaDevices, started,
                   compVars>>
    /\ \/ neg' = [neg EXCEPT ![n] = ForgetOffer(ForgetSetup([@ EXCEPT !.pc = "aborted"]))]
       \/ neg' = [neg EXCEPT ![n] = ForgetSetup([@ EXCEPT !.pc = "setLocal"])]

\* setLocalDescription settles (line 167); the icecandidate listener is
\* registered (lines 169-179) and the function waits for iceResolver.
SetLocalSettles(n) ==
    /\ neg[n].pc = "setLocal"
    /\ UNCHANGED <<connected, hasUpdated, entityid, mediaDevices, started,
                   compVars>>
    /\ \/ neg' = [neg EXCEPT ![n] = ForgetOffer([@ EXCEPT !.pc = "aborted"])]
       \/ neg' = [neg EXCEPT ![n].pc = "gather"]

\* Faulty variant: a new candidate line is put in front of the earlier ones.
AppendCandidate_InFront(candidates, c) == "a=" \o c \o "\r\n" \o candidates

\* Line 176.
AppendCandidate(candidates, c) == candidates \o "a=" \o c \o "\r\n"

\* An icecandidate event with a candidate (lines 171-177).
IceCandidate(n) ==
    /\ neg[n].pc = "gather"
    /\ neg[n].gathered < MaxCand
    /\ UNCHANGED <<connected, hasUpdated, entityid, mediaDevices, started,
                   compVars>>
    /\ neg' = [neg EXCEPT ![n] =
                  [@ EXCEPT !.gathered = @ + 1,
                            !.candidates = AppendCandidate(@, Candidate(neg[n].gathered + 1))]]

\* Line 180.
BuildOfferSdp(sdp, candidates) == sdp \o candidates

\* The icecandidate event with a null candidate (lines 172-174) resolves
\* iceResolver; the offer is built and handleWebRtcOffer called (lines 180-188).
GatheringComplete(n) ==
    /\ neg[n].pc = "gather"
    /\ UNCHANGED <<connected, hasUpdated, entityid, mediaDevices, started,
                   compVars>>
    /\ neg' = [neg EXCEPT ![n] =
                  [@ EXCEPT !.pc = "offer",
                            !.offerEntity = entityid,
                            !.offer_sdp = BuildOfferSdp(OfferSdp(n), neg[n].candidates)]]

\* Faulty variant: the catch block does not close the peer connection.
FailWith_NoClose(n, message) ==
    /\ _error' = message
    /\ videoEl' = Render(message, videoEl)
    /\ micShown' = RenderMic(message, _localReturnAudioTrack, micEnabled)
    /\ UNCHANGED <<pcs, nClose>>

\* Lines 189-193 and 210-214: what a catch block does to the component.
\* Assigning the reactive _error renders the alert.
FailWith(n, message) ==
    /\ _error' = message
    /\ videoEl' = Render(message, videoEl)
    /\ micShown' = RenderMic(message, _localReturnAudioTrack, micEnabled)
    /\ pcs' = [pcs EXCEPT ![n] = "closed"]
    /\ nClose' = nClose + 1

\* handleWebRtcOffer settles (lines 182-209).  On success the remote stream
\* is created, the track listener registered, _remoteStream assigned and
\* setRemoteDescription called.
OfferSettles(n) ==
    /\ neg[n].pc = "offer"
    /\ UNCHANGED <<connected, hasUpdated, entityid, mediaDevices, started,
                   _peerConnection, _localReturnAudioTrack, micEnabled,
                   stoppedLocal, streamTracks, stoppedRemote, closeReqs, attached>>
    /\ \/ \E msg \in Msgs :
            /\ FailWith(n, ErrStart \o msg)
            /\ neg' = [neg EXCEPT ![n] = ForgetOffer([@ EXCEPT !.pc = "failedOffer"])]
            /\ UNCHANGED _remoteStream
       \/ /\ _remoteStream' = n
          /\ neg' = [neg EXCEPT ![n] =
                        ForgetOffer([@ EXCEPT !.pc = "setRemote",
                                              !.trackListener = TRUE,
                                              !.remoteDescription = "called"])]
          /\ UNCHANGED <<_error, videoEl, micShown, pcs, nClose>>

\* Faulty variant: the listener attaches this._remoteStream, the stream of whichever
\* negotiation assigned it last, instead of its own remoteStream.
OnTrack_AttachesThisRemoteStream(n, i, m) ==
    LET m1 == [m EXCEPT !.tracks = @ \cup {i}]
    IN  IF m1.video.present /\ _remoteStream # 0
        THEN [m1 EXCEPT !.video.srcObject = _remoteStream,
                        !.attached = @ \cup {_remoteStream}]
        ELSE m1

\* The track listener of negotiation n (lines 197-200) on its i-th track
\* event: the track joins the negotiation's own stream, which is assigned to
\* the video element.  this._videoEl is null while the alert is rendered: the
\* assignment then throws inside the listener and nothing is attached.
\* `m` is [tracks, video, attached].
OnTrack(n, i, m) ==
    LET m1 == [m EXCEPT !.tracks = @ \cup {i}]
    IN  IF m1.video.present
        THEN [m1 EXCEPT !.video.srcObject = n, !.attached = @ \cup {n}]
        ELSE m1

RECURSIVE TrackEvents(_, _, _)
\* The k track events fired while a remote description is applied.
TrackEvents(n, k, m) ==
    IF k = 0 THEN m ELSE OnTrack(n, k, TrackEvents(n, k - 1, m))

\* setRemoteDescription settles (lines 208-215).  The browser fires the track
\* events of the applied description in the task that resolves the promise.
SetRemoteSettles(n) ==
    /\ neg[n].pc = "setRemote"
    /\ UNCHANGED <<connected, hasUpdated, entityid, mediaDevices, started,
                   _remoteStream, _localReturnAudioTrack, micEnabled,
                   stoppedLocal, stoppedRemote, closeReqs>>
    /\ \/ \E msg \in Msgs :
            /\ FailWith(n, ErrConnect \o msg)
            /\ neg' = [neg EXCEPT ![n] =
                          [@ EXCEPT !.pc = "failedRemote", !.remoteDescription = "rejected"]]
            /\ UNCHANGED <<_peerConnection, streamTracks, attached>>
       \/ \E k \in 0..MaxTracks :
            LET m == TrackEvents(n, k, [tracks |-> streamTracks[n],
                                        video |-> videoEl,
                                        attached |-> attached])
            IN  /\ streamTracks' = [streamTracks EXCEPT ![n] = m.tracks]
                /\ videoEl' = m.video
                /\ attached' = m.attached
                /\ _peerConnection' = n
                /\ neg' = [neg EXCEPT ![n] =
                              [@ EXCEPT !.pc = "established", !.remoteDescription = "applied"]]
                /\ UNCHANGED <<_error, micShown, pcs, nClose>>

\* ---------------------------------------------------------------- _cleanUp
\* The part of the state _cleanUp reads and writes.
World ==
    [remoteStream |-> _remoteStream,
     localTrack |-> _localReturnAudioTrack,
     peerConnection |-> _peerConnection,
     video |-> videoEl,
     stoppedLocal |-> stoppedLocal,
     stoppedRemote |-> stoppedRemote,
     pcs |-> pcs,
     nClose |-> nClose,
     closeReqs |-> closeReqs]

\* Lines 250-255.
CleanUpRemoteStream(w) ==
    IF w.remoteStream # 0
    THEN [w EXCEPT !.stoppedRemote = @ \cup {<<w.remoteStream, i>> : i \in streamTracks[w.remoteStream]},
                   !.remoteStream = 0]
    ELSE w

\* Lines 256-258.
CleanUpLocalTrack(w) ==
    IF w.localTrack # 0
    THEN [w EXCEPT !.stoppedLocal = @ \cup {w.localTrack}]
    ELSE w

\* Lines 259-262: removeAttribute("src") and load(); srcObject is not touched.
CleanUpVideo(w) ==
    IF w.video.present
    THEN [w EXCEPT !.video.src = ""]
    ELSE w

\* Faulty variant: the closed peer connection stays referenced.
CleanUpPeerConnection_KeepsReference(w, eid) ==
    IF w.peerConnection # 0
    THEN [w EXCEPT !.pcs[w.peerConnection] = "closed",
                   !.nClose = @ + 1,
                   !.closeReqs = Append(@, [entity |-> eid, pc |-> w.peerConnection])]
    ELSE w

\* Lines 263-267.
CleanUpPeerConnection(w, eid) ==
    IF w.peerConnection # 0
    THEN [w EXCEPT !.pcs[w.peerConnection] = "closed",
                   !.nClose = @ + 1,
                   !.peerConnection = 0,
                   !.closeReqs = Append(@, [entity |-> eid, pc |-> w.peerConnection])]
    ELSE w

\* Lines 249-268.
CleanUp(w, eid) ==
    CleanUpPeerConnection(CleanUpVideo(CleanUpLocalTrack(CleanUpRemoteStream(w))), eid)

\* ---------------------------------------------------------------- lifecycle
\* connectedCallback (lines 98-103).  The first connect enables Lit's first
\* update: render, then updated() with entityid among the changed properties
\* (lines 110-118), which finds the video and starts.  A later connect starts
\* directly; it renders only when line 121 changes the reactive _error.
Connect ==
    /\ ~connected
    /\ connected' = TRUE
    /\ hasUpdated' = TRUE
    /\ IF hasUpdated
       THEN StartWebRtc(videoEl, entityid)
       ELSE StartWebRtc(Render(_error, videoEl), entityid)
    /\ micShown' = IF hasUpdated /\ _error = NoError
                   THEN micShown
                   ELSE RenderMic(NoError, _localReturnAudioTrack, micEnabled)
    /\ UNCHANGED <<entityid, mediaDevices, _peerConnection, _remoteStream,
                   _localReturnAudioTrack, micEnabled, stoppedLocal, streamTracks,
                   stoppedRemote, pcs, nClose, closeReqs, attached>>

\* disconnectedCallback (lines 105-108).
Disconnect ==
    /\ connected
    /\ connected' = FALSE
    /\ LET w == CleanUp(World, entityid)
       IN  /\ _remoteStream' = w.remoteStream
           /\ _localReturnAudioTrack' = w.localTrack
           /\ _peerConnection' = w.peerConnection
           /\ videoEl' = w.video
           /\ stoppedLocal' = w.stoppedLocal
           /\ stoppedRemote' = w.stoppedRemote
           /\ pcs' = w.pcs
           /\ nClose' = w.nClose
           /\ closeReqs' = w.closeReqs
    /\ UNCHANGED <<hasUpdated, entityid, mediaDevices, started, neg,
                   _error, micShown, micEnabled, streamTracks, attached>>

\* The host page assigns another entityid.  Before the first update the
\* value is only stored.  Afterwards Lit updates the element (connected or
\* not) and calls updated() (lines 110-118), which starts a negotiation when
\* the video is rendered and returns when the alert is.
SetEntity(e) ==
    /\ e # entityid
    /\ entityid' = e
    /\ IF hasUpdated /\ videoEl.present
       THEN StartWebRtc(videoEl, e)
       ELSE UNCHANGED <<started, neg, _error, videoEl>>
    /\ micShown' = IF hasUpdated
                   THEN RenderMic(_error, _localReturnAudioTrack, micEnabled)
                   ELSE micShown
    /\ UNCHANGED <<connected, hasUpdated, mediaDevices, _peerConnection,
                   _remoteStream, _localReturnAudioTrack, micEnabled, stoppedLocal,
                   streamTracks, stoppedRemote, pcs, nClose, closeReqs, attached>>

\* Lit renders again for a reason that is not in this file: the host page
\* assigns a new hass object (a reactive property, line 31) on every state
\* change of the backend.  updated() returns at line 111.
HassChanged ==
    /\ hasUpdated
    /\ micShown' = RenderMic(_error, _localReturnAudioTrack, micEnabled)
    /\ UNCHANGED <<connected, hasUpdated, entityid, mediaDevices, started, neg,
                   _error, _peerConnection, _remoteStream, _localReturnAudioTrack,
                   videoEl, micEnabled, stoppedLocal, streamTracks, stoppedRemote,
                   pcs, nClose, closeReqs, attached>>

\* Lines 61-62: enabled = !enabled on the local return audio track.
ToggledMic(enabled, track) ==
    IF track \in enabled THEN enabled \ {track} ELSE enabled \cup {track}

\* toggleMic (lines 60-64), the click handler of the mic control that is in
\* the DOM; requestUpdate() (line 63) renders again.
ToggleMic ==
    /\ micShown # "none"
    /\ micEnabled' = ToggledMic(micEnabled, _localReturnAudioTrack)
    /\ micShown' = RenderMic(_error, _localReturnAudioTrack, micEnabled')
    /\ UNCHANGED <<connected, hasUpdated, entityid, mediaDevices, started, neg,
                   _error, _peerConnection, _remoteStream, _localReturnAudioTrack,
                   videoEl, stoppedLocal, streamTracks, stoppedRemote,
                   pcs, nClose, closeReqs, attached>>

\* ---------------------------------------------------------------- specification
Next ==
    \/ Connect
    \/ Disconnect
    \/ \E e \in Entities : SetEntity(e)
    \/ ToggleMic
    \/ HassChanged
    \/ \E n \in Negs : FetchConfigSettles(n)
    \/ \E n \in Negs : FetchSettingsSettles(n)
    \/ \E n \in Negs : CaptureSettles(n)
    \/ \E n \in Negs : CreateOfferSettles(n)
    \/ \E n \in Negs : SetLocalSettles(n)
    \/ \E n \in Negs : IceCandidate(n)
    \/ \E n \in Negs : GatheringComplete(n)
    \/ \E n \in Negs : OfferSettles(n)
    \/ \E n \in Negs : SetRemoteSettles(n)

Spec == Init /\ [][Next]_vars

TypeOK ==
    /\ connected \in BOOLEAN
    /\ hasUpdated \in BOOLEAN
    /\ entityid \in Entities
    /\ _peerConnection \in 0..MaxNeg
    /\ _remoteStream \in 0..MaxNeg
    /\ _localReturnAudioTrack \in 0..MaxNeg
    /\ started \in 0..MaxNeg
    /\ \A n \in Negs : (neg[n].pc = "idle") <=> (n > started)
    /\ videoEl.present <=> (hasUpdated /\ _error = NoError)
    /\ micShown \in {"none", "Turn on mic", "Turn off mic"}
    /\ micShown # "none" => videoEl.present

\* ---------------------------------------------------------------- claims
NegsInFlight == {n \in Negs : InFlight(n)}

\* C1: at most one negotiation (_startWebRtc run) is in flight per component
\* instance at any time; a new start never overlaps a running one.
C1_AtMostOneNegotiationInFlight ==
    Cardinality(NegsInFlight) <= 1

\* C2: a negotiation's remote stream is attached to the video element (or has
\* received a track) only once that negotiation's setRemoteDescription has
\* been applied successfully; a negotiation whose setRemoteDescription
\* rejected never has its stream attached.
C2_NoAttachBeforeRemoteDescription ==
    \A n \in Negs :
        (n \in attached \/ videoEl.srcObject = n \/ streamTracks[n] # {})
            => neg[n].remoteDescription = "applied"

C2_Witness ==
    \E n, m \in Negs :
        /\ videoEl.srcObject = n
        /\ n \in attached
        /\ neg[m].remoteDescription = "rejected"

\* C3 (state part): a negotiation whose handleWebRtcOffer rejected has closed
\* its peer connection, registered no track listener, never called
\* setRemoteDescription, is referenced neither by _remoteStream nor by
\* _peerConnection, and its stream has no track and was never attached.
C3_AfterOfferRejection ==
    \A n \in Negs :
        neg[n].pc = "failedOffer" =>
            /\ pcs[n] = "closed"
            /\ ~neg[n].trackListener
            /\ neg[n].remoteDescription = "none"
            /\ _remoteStream # n
            /\ _peerConnection # n
            /\ streamTracks[n] = {}
            /\ n \notin attached
            /\ videoEl.srcObject # n

\* C3 (step part): the step in which handleWebRtcOffer rejects sets _error to
\* "Failed to start WebRTC stream: " plus the message, the alert replaces the
\* video, and _remoteStream and _peerConnection are left as they were.
C3_OfferRejectionStep ==
    \A n \in Negs :
        (neg[n].pc = "offer" /\ neg'[n].pc = "failedOffer") =>
            /\ \E msg \in Msgs : _error' = "Failed to start WebRTC stream: " \o msg
            /\ ~videoEl'.present
            /\ pcs[n] = "open" /\ pcs'[n] = "closed"
            /\ UNCHANGED <<_remoteStream, _peerConnection, streamTracks, attached>>

\* C3: when handleWebRtcOffer rejects, the negotiation sets _error to the
\* "Failed to start WebRTC stream: " message, closes its peer connection and
\* stops without listener, setRemoteDescription, stream or attachment.
C3_OfferRejectionAborts ==
    []C3_AfterOfferRejection /\ [][C3_OfferRejectionStep]_vars

C3_Witness ==
    \E n \in Negs :
        /\ neg[n].pc = "failedOffer"
        /\ \E msg \in Msgs : _error = ErrStart \o msg
        /\ pcs[n] = "closed"

\* C4: a negotiation whose setRemoteDescription rejected has closed its peer
\* connection and left neither _peerConnection nor _remoteStream set by it.
C4_NoPartialStateAfterRemoteRejection ==
    \A n \in Negs :
        neg[n].pc = "failedRemote" =>
            /\ pcs[n] = "closed"
            /\ _peerConnection # n
            /\ _remoteStream # n

\* C5: when capture was requested and returned no track, the negotiation is
\* not aborted and goes on with a receive-only audio transceiver.
C5_CaptureFailureDegradesToRecvOnly ==
    \A n \in Negs :
        neg[n].captured = 0 =>
            /\ neg[n].pc = "createOffer"
            /\ neg[n].transceivers = <<AudioRecvOnly, VideoRecvOnly>>

\* C6: a negotiation for which capture is not requested, started once every
\* earlier session had been established and torn down,
\* gets a receive-only audio transceiver and leaves the component without
\* local return audio track and without mic control.
C6_NoLocalTrackWhenCaptureNotRequested ==
    \A n \in Negs :
        ( /\ neg[n].pc = "createOffer"
          /\ ~CaptureRequested(neg[n].web_rtc_config)
          /\ ~neg[n].overlaps
          /\ \A m \in Negs :
                /\ m < n => (neg[m].pc = "established" /\ pcs[m] = "closed")
                /\ m > n => neg[m].pc = "idle" )
        => /\ neg[n].transceivers = <<AudioRecvOnly, VideoRecvOnly>>
           /\ _localReturnAudioTrack = 0
           /\ ~MicControlRendered

AudioTransceivers(ts) ==
    {i \in DOMAIN ts : ts[i].kind = "audio"}

\* C7: when audio_direction is "sendrecv", navigator.mediaDevices exists and
\* the capture returned a track, the session has exactly one audio
\* transceiver, send-receive, seeded with the first captured track, and that
\* track is disabled when createOffer is called.
C7_SendRecvTransceiverStartsMuted ==
    \A n \in Negs :
        (neg[n].pc = "createOffer" /\ neg[n].captured > 0) =>
            /\ CaptureRequested(neg[n].web_rtc_config)
            /\ Cardinality(AudioTransceivers(neg[n].transceivers)) = 1
            /\ \A i \in AudioTransceivers(neg[n].transceivers) :
                   /\ neg[n].transceivers[i].direction = "sendrecv"
                   /\ neg[n].transceivers[i].track = n
            /\ neg[n].offerMic = "off"

C7_Witness ==
    \E n \in Negs :
        /\ neg[n].pc = "createOffer"
        /\ neg[n].captured > 0
        /\ _localReturnAudioTrack = n
        /\ n \notin micEnabled

\* C8: _cleanUp is idempotent: in every reachable state a second consecutive
\* _cleanUp leaves everything as the first left it, with no further
\* peer-connection close and no further closeWebRtcStream request.
C8_CleanUpIdempotent ==
    CleanUp(CleanUp(World, entityid), entityid) = CleanUp(World, entityid)

\* A teardown of an established session has run, and nothing is left for a
\* second one to do.
C8_Witness ==
    /\ ~connected
    /\ Len(closeReqs) > 0
    /\ nClose > 0
    /\ stoppedRemote # {}
    /\ CleanUp(World, entityid) = World

CloseReqsFor(n) ==
    {i \in DOMAIN closeReqs : closeReqs[i].pc = n}

\* C9: after the teardown of an established session (one that ran alone),
\* every remote track is stopped, the local return audio track is stopped,
\* the video no longer has the remote stream attached, the peer connection
\* is closed and unreferenced and exactly one closeWebRtcStream request was
\* sent for it; no request is sent for anything but an established session.
C9_TeardownReleasesEverything ==
    /\ \A n \in Negs :
          ( /\ neg[n].pc = "established"
            /\ pcs[n] = "closed"
            /\ \A m \in Negs \ {n} : neg[m].pc = "idle" )
          => /\ \A i \in streamTracks[n] : <<n, i>> \in stoppedRemote
             /\ _localReturnAudioTrack # 0 => _localReturnAudioTrack \in stoppedLocal
             /\ videoEl.srcObject # n
             /\ _peerConnection # n
             /\ Cardinality(CloseReqsFor(n)) = 1
    /\ \A i \in DOMAIN closeReqs : neg[closeReqs[i].pc].pc = "established"

\* The configuration the claim C10 describes, from what the backend returned.
C10_ExpectedConfiguration(r) ==
    IF r.web_rtc_config # Undefined /\ r.web_rtc_config.rtc_configuration # Undefined
    THEN r.web_rtc_config.rtc_configuration
    ELSE IF r.rtspLoaded /\ r.settings # Undefined /\ r.settings.stun_server # ""
    THEN [iceServers |-> << [urls |-> <<"stun:" \o r.settings.stun_server>>] >>]
    ELSE [iceServers |-> <<>>]

\* C10: the peer connection is built with the backend's rtc_configuration
\* when there is one (and then no fallback settings are fetched); otherwise
\* with the single ice server "stun:<stun_server>" when rtsp_to_webrtc is
\* loaded and its settings carry a stun_server; otherwise with the empty
\* configuration.
C10_PeerConfigurationResolution ==
    \A n \in Negs :
        /\ neg[n].pc \in {"capture", "createOffer"} =>
              /\ pcs[n] = "open"
              /\ neg[n].peer_configuration = C10_ExpectedConfiguration(neg[n])
        /\ neg[n].settingsFetched =>
              /\ neg[n].rtspLoaded
              /\ ~( /\ neg[n].web_rtc_config # Undefined
                    /\ neg[n].web_rtc_config.rtc_configuration # Undefined )

C10_Witness ==
    \E n \in Negs :
        /\ neg[n].pc = "createOffer"
        /\ neg[n].settingsFetched
        /\ neg[n].peer_configuration =
               [iceServers |-> << [urls |-> <<"stun:stun.example:3478">>] >>]

\* C11: whenever a local return audio track exists, the rendered mic label
\* matches the track's current enabled flag ("Turn off mic" iff enabled).
\* Stated for runs in which no negotiation was started while another ran or
\* a session was held, so that a violation owes nothing to overlapping calls.
C11_RenderedMicMatchesFlag ==
    (_localReturnAudioTrack # 0 /\ \A n \in Negs : ~neg[n].overlaps) =>
        (micShown = "Turn off mic") <=> (_localReturnAudioTrack \in micEnabled)

\* The part of C11 about the toggleMic step itself: it flips the flag of the
\* local track and of no other, leaves the label in agreement with the flag,
\* and changes nothing else of the component.
C11_ToggleMicStep ==
    (micEnabled' # micEnabled /\ _localReturnAudioTrack' = _localReturnAudioTrack
        /\ started' = started /\ neg' = neg) =>
        /\ _localReturnAudioTrack # 0
        /\ (_localReturnAudioTrack \in micEnabled') <=> (_localReturnAudioTrack \notin micEnabled)
        /\ micEnabled' \ {_localReturnAudioTrack} = micEnabled \ {_localReturnAudioTrack}
        /\ (micShown' = "Turn off mic") <=> (_localReturnAudioTrack \in micEnabled')
        /\ (micShown' = "Turn on mic") <=> (_localReturnAudioTrack \notin micEnabled')
        /\ UNCHANGED <<_peerConnection, _remoteStream, _error, videoEl>>

C11_ToggleMicFlipsOnlyTheFlag == [][C11_ToggleMicStep]_vars

OpenPeerConnections == {n \in Negs : pcs[n] = "open"}

\* C12: at every moment at most one peer connection created by the instance
\* is open, and every open one is either the one held in _peerConnection or
\* the one of a negotiation still in flight.
C12_AtMostOneOpenPeerConnection ==
    /\ Cardinality(OpenPeerConnections) <= 1
    /\ \A n \in OpenPeerConnections : n = _peerConnection \/ InFlight(n)

\* C13: a negotiation in flight at disconnect is not aborted, but what it
\* produces is released: once the element is disconnected and no negotiation
\* is in flight any more, the component holds no open peer connection and no
\* unstopped remote track (nothing but a host action can happen in such a
\* state, so "eventually" is "now").  Stated for runs in which every
\* negotiation ran alone and ended established or failed.
C13_ReleasedAfterDisconnect ==
    ( /\ ~connected
      /\ \A n \in Negs : neg[n].pc \in {"idle", "established", "failedOffer", "failedRemote"}
      /\ \A n \in Negs : ~neg[n].overlaps )
    => /\ OpenPeerConnections = {}
       /\ \A n \in Negs : \A i \in streamTracks[n] : <<n, i>> \in stoppedRemote

\* C14: a negotiation is started exactly once by every connect and exactly
\* once by every change of entityid while the element is connected, whatever
\* the component shows at that time (the video or the error alert).
C14_StartStep ==
    /\ (~connected /\ connected') => started' = started + 1
    /\ (connected /\ connected' /\ entityid' # entityid) => started' = started + 1

C14_StartedOncePerConnectAndEntityChange == [][C14_StartStep]_vars

\* The candidate lines C15 expects for candidates 1..k, in gathering order.
RECURSIVE C15_CandidateLines(_)
C15_CandidateLines(k) ==
    IF k = 0 THEN ""
    ELSE C15_CandidateLines(k - 1) \o "a=" \o Candidate(k) \o "\r\n"

C15_OfferPayload ==
    \A n \in Negs :
        neg[n].pc = "offer" =>
            neg[n].offer_sdp = OfferSdp(n) \o C15_CandidateLines(neg[n].gathered)

C15_OfferOrderStep ==
    \A n \in Negs :
        /\ (neg[n].pc # "offer" /\ neg'[n].pc = "offer") =>
              /\ neg[n].pc = "gather"
              /\ neg'[n].gathered = neg[n].gathered
        /\ (neg[n].pc # "gather" /\ neg'[n].pc = "gather") => neg[n].pc = "setLocal"
        /\ (neg[n].pc = "gather" /\ neg'[n].pc = "gather") =>
              neg'[n].gathered \in {neg[n].gathered, neg[n].gathered + 1}

C16_EndsEstablishedOrFailed ==
    \A n \in Negs :
        (n <= started /\ ~InFlight(n)) =>
            \/ neg[n].pc = "established"
            \/ neg[n].pc \in {"failedOffer", "failedRemote"} /\ pcs[n] = "closed"

\* C17: error and connected are mutually exclusive: whenever _error is set
\* the component holds no open peer connection in _peerConnection.
C17_NoOpenPeerConnectionWhileError ==
    _error # NoError => (_peerConnection = 0 \/ pcs[_peerConnection] # "open")

\* C18: within one negotiation the offer is submitted for the entity id whose
\* configuration was fetched at its start, and every closeWebRtcStream
\* request names the entity id for which the peer connection being closed
\* was negotiated, even when entityid changes in between.
C18_IdentifierConsistency ==
    /\ \A n \in Negs : neg[n].pc = "offer" => neg[n].offerEntity = neg[n].cfgEntity
    /\ \A i \in DOMAIN closeReqs : closeReqs[i].entity = neg[closeReqs[i].pc].offerEntity

\* C19: last start wins: once every negotiation started on a connected
\* instance has settled and the most recently started one is established,
\* _peerConnection and _remoteStream are that negotiation's, and so is the
\* stream attached to the video when that negotiation delivered a track,
\* whatever order overlapping negotiations completed in.  Stated for states
\* without an error on display.
C19_LastStartWins ==
    ( /\ connected
      /\ started > 0
      /\ _error = NoError
      /\ \A n \in Negs : ~InFlight(n)
      /\ neg[started].pc = "established" )
    => /\ _peerConnection = started
       /\ _remoteStream = started
       /\ streamTracks[started] # {} => videoEl.srcObject = started

============================================================================
